---- MODULE Spec2Model ----
(***************************************************************************)
(* Semantic content index of News_Agent: ChromaVectorStoreTool             *)
(* (src/src/tools/storage/vector_store.py) over a Chroma collection and a  *)
(* sentence-transformers embedding model.                                  *)
(*                                                                         *)
(* Text is a sequence of characters (one-character strings); a non-ASCII   *)
(* character of the source is written by its code point, "U+4F5C".         *)
(* Distances are the squared L2 distances Chroma reports by default, over  *)
(* unit-length embedding vectors with integer coordinates.                  *)
(***************************************************************************)
EXTENDS FiniteSets, Integers, Sequences, TLC

VARIABLES collection, prev, lastOp, updating, item

vars == <<collection, prev, lastOp, updating, item>>

(* ------------------------------ bounds ------------------------------- *)

NumIds == 2

(* the ids of the records that get stored *)
Ids == 1..NumIds

(* a search asks for up to as many results as there are ids *)
MaxResults == NumIds

(* the entries of the largest index statistics are taken of *)
MaxEntries == 101

(* --------------------------- Python values --------------------------- *)

None == [isNone |-> TRUE]
Some(v) == [isNone |-> FALSE, value |-> v]

Return(v) == [kind |-> "return", value |-> v]
Raise(exc, message, cause) ==
    [kind |-> "raise", exc |-> exc, message |-> message, cause |-> cause]

Min(a, b) == IF a <= b THEN a ELSE b

RECURSIVE Join(_, _)
Join(parts, sep) ==
    IF parts = <<>> THEN <<>>
    ELSE IF Len(parts) = 1 THEN parts[1]
    ELSE parts[1] \o sep \o Join(Tail(parts), sep)

Prefix(s, n) == SubSeq(s, 1, Min(Len(s), n))

(* json.dumps of a list of strings, and json.loads of its output *)
RECURSIVE JsonEscape(_)
JsonEscape(s) ==
    IF s = <<>> THEN <<>>
    ELSE (IF Head(s) \in {"\"", "\\"} THEN <<"\\", Head(s)>> ELSE <<Head(s)>>)
         \o JsonEscape(Tail(s))

JsonDumps(list) ==
    <<"[">>
    \o Join([i \in 1..Len(list) |-> <<"\"">> \o JsonEscape(list[i]) \o <<"\"">>],
            <<",", " ">>)
    \o <<"]">>

RECURSIVE JsonItems(_, _, _, _, _)
JsonItems(s, i, inString, cur, acc) ==
    IF i > Len(s) THEN acc
    ELSE IF ~inString
         THEN JsonItems(s, i + 1, s[i] = "\"", <<>>, acc)
    ELSE IF s[i] = "\\"
         THEN JsonItems(s, i + 2, TRUE, Append(cur, s[i + 1]), acc)
    ELSE IF s[i] = "\""
         THEN JsonItems(s, i + 1, FALSE, <<>>, Append(acc, cur))
    ELSE JsonItems(s, i + 1, TRUE, Append(cur, s[i]), acc)

JsonLoads(s) == JsonItems(s, 1, FALSE, <<>>, <<>>)

(* datetime.isoformat / datetime.fromisoformat on an abstract instant *)
IsoFormat(t) == <<"iso", t>>
FromIsoFormat(s) == s[2]

(* --------------------------- ContentItem ----------------------------- *)

ContentPrefixLen == 1000

(* the record shapes an ingestion source hands over: one with every field   *)
(* filled, one with empty title, summary and body; quality in hundredths    *)
Shapes ==
    { [title |-> <<"t">>, content |-> <<"c", "d">>, summary |-> Some(<<"s">>),
       url |-> "u1", content_type |-> "academic_paper", source_id |-> "s1",
       source_name |-> "arxiv", authors |-> << <<"a">>, <<"b">> >>,
       tags |-> << <<"g">> >>, categories |-> << <<"k">> >>,
       published_at |-> 1, quality_score |-> 85],
      [title |-> <<>>, content |-> <<>>, summary |-> None,
       url |-> "u2", content_type |-> "blog_post", source_id |-> "s2",
       source_name |-> "blog", authors |-> <<>>,
       tags |-> <<>>, categories |-> <<>>,
       published_at |-> 2, quality_score |-> 0] }

ContentItem(id, shape) == [id |-> id] @@ shape

ContentItems == {ContentItem(id, shape) : id \in Ids, shape \in Shapes}

(* the records similar content is looked up for: those above, and a new     *)
(* record (id 0) that is looked up and never stored                         *)
Probes == {ContentItem(id, shape) : id \in 0..NumIds, shape \in Shapes}

Truthy(opt) == ~opt.isNone /\ opt.value # <<>>

(* ----------------------- _prepare_text_for_embedding ------------------ *)

AuthorsLabel == <<"U+4F5C", "U+8005", ":", " ">>
TagsLabel == <<"U+6807", "U+7B7E", ":", " ">>

_prepare_text_for_embedding(content) ==
    LET text_parts ==
            <<content.title>>
            \o (IF Truthy(content.summary) THEN <<content.summary.value>> ELSE <<>>)
            \o (IF content.content # <<>>
                THEN <<Prefix(content.content, ContentPrefixLen)>> ELSE <<>>)
            \o (IF content.authors # <<>>
                THEN <<AuthorsLabel \o Join(content.authors, <<",", " ">>)>> ELSE <<>>)
            \o (IF content.tags # <<>>
                THEN <<TagsLabel \o Join(content.tags, <<",", " ">>)>> ELSE <<>>)
    IN Join(text_parts, <<"\n">>)

(* -------------------------- embedding model --------------------------- *)

(* SentenceTransformer.encode: deterministic, fixed dimension, unit length *)
UnitVectors == << <<1, 0>>, <<0, 1>>, <<-1, 0>>, <<0, -1>> >>

encode(text) == UnitVectors[(Len(text) % Len(UnitVectors)) + 1]

(* Chroma's default space "l2": the squared Euclidean distance *)
Distance(u, v) ==
    (u[1] - v[1]) * (u[1] - v[1]) + (u[2] - v[2]) * (u[2] - v[2])

(* ------------------------- Chroma collection -------------------------- *)
(* The collection is the set of its entries [id, embedding, document,      *)
(* metadata]; count() is its cardinality.                                   *)

IdsOf(coll) == {e.id : e \in coll}

(* collection.count() *)
Count(coll) == Cardinality(coll)

(* the add that does not look for the id *)
CollectionAdd_dup(coll, entry) == coll \cup {entry}

(* collection.add(ids=[id], ...): an id already present is left as it is *)
CollectionAdd(coll, entry) ==
    IF entry.id \in IdsOf(coll) THEN coll ELSE coll \cup {entry}

(* collection.get(ids=[id]): the entries of that id *)
CollectionGet(coll, id) == {e \in coll : e.id = id}

(* collection.get(limit=limit): limit of the entries, or all when there are  *)
(* no more than that, those the index chooses: the answers are the          *)
(* collection without each choice of the entries left out                   *)
RECURSIVE LeftOut(_, _)
LeftOut(coll, m) ==
    IF m = 0 THEN {{}}
    ELSE UNION {{rest \cup {e} : rest \in LeftOut({f \in coll : f.id > e.id}, m - 1)} :
                e \in coll}

CollectionGetLimit(coll, limit) ==
    {coll \ left : left \in LeftOut(coll, Count(coll) - Min(limit, Count(coll)))}

(* the delete that removes nothing, and the one that drops the ids filter *)
CollectionDelete_keep(coll, id) == coll

CollectionDelete_all(coll, id) == {}

(* collection.delete(ids=[id]): an id not present is not an error *)
CollectionDelete(coll, id) == {e \in coll : e.id # id}

(* collection.query(query_embeddings=[vec], n_results=n, where=where): the    *)
(* n nearest matching entries, closest first; entries at the same distance  *)
(* come in an order the index chooses, so the answers are a set             *)
NoWhere == None

Wheres == {NoWhere, Some([field |-> "source_name", value |-> "arxiv"])}

Matches(metadata, where) ==
    where.isNone \/ metadata[where.value.field] = where.value.value

Hit(entry, vec) ==
    [id |-> entry.id, document |-> entry.document, metadata |-> entry.metadata,
     distance |-> Distance(entry.embedding, vec)]

Closest(entries, vec) ==
    {e \in entries :
        \A f \in entries : Distance(e.embedding, vec) <= Distance(f.embedding, vec)}

RECURSIVE Nearest(_, _, _)
Nearest(entries, vec, n) ==
    IF n = 0 \/ entries = {} THEN {<<>>}
    ELSE UNION {{<<Hit(e, vec)>> \o rest : rest \in Nearest(entries \ {e}, vec, n - 1)} :
                e \in Closest(entries, vec)}

CollectionQuery(coll, vec, n, where) ==
    Nearest({e \in coll : Matches(e.metadata, where)}, vec, n)

(* ----------------------- ChromaVectorStoreTool ------------------------ *)

(* the names bound at module level of vector_store.py *)
ModuleGlobals ==
    {"chromadb", "List", "Optional", "Dict", "Any", "SentenceTransformer",
     "CallbackManagerForToolRun", "json", "StorageTool", "ToolResult",
     "ContentItem", "config", "VectorStoreException", "ChromaVectorStoreTool"}

VectorStoreException(message, cause) == Raise("VectorStoreException", message, cause)

Metadata(content) ==
    [title |-> content.title,
     source_name |-> content.source_name,
     content_type |-> content.content_type,
     published_at |-> IsoFormat(content.published_at),
     quality_score |-> content.quality_score,
     url |-> content.url,
     authors |-> JsonDumps(content.authors),
     categories |-> JsonDumps(content.categories),
     tags |-> JsonDumps(content.tags)]

(* what store_content hands to collection.add for a record *)
IndexEntry(content) ==
    LET text_to_embed == _prepare_text_for_embedding(content)
    IN [id |-> content.id, embedding |-> encode(text_to_embed),
        document |-> text_to_embed, metadata |-> Metadata(content)]

(* the records of a long ingestion run: ids 1, 2, ..., the sources taking  *)
(* turns                                                                    *)
BulkItems ==
    [id \in 1..MaxEntries |->
        ContentItem(id, CHOOSE shape \in Shapes :
                            (shape.source_name = "arxiv") <=> (id % 2 = 1))]

Entries ==
    [content \in Probes \cup {BulkItems[id] : id \in 1..MaxEntries} |->
        IndexEntry(content)]

(* the store whose rejected write leaves the entry behind *)
store_content_partial(coll, content, encodeFails, addFails) ==
    IF encodeFails
    THEN [coll |-> coll, result |-> Raise("VectorStoreException", "store failed", "encode")]
    ELSE [coll |-> coll \cup (IF Entries[content].id \in {e.id : e \in coll}
                              THEN {} ELSE {Entries[content]}),
          result |-> IF addFails
                     THEN Raise("VectorStoreException", "store failed", "add")
                     ELSE Return(content.id)]

(* encodeFails, addFails, ...: the collaborator's call raises *)
store_content(coll, content, encodeFails, addFails) ==
    IF encodeFails
    THEN [coll |-> coll, result |-> VectorStoreException("store failed", "encode")]
    ELSE IF addFails
    THEN [coll |-> coll, result |-> VectorStoreException("store failed", "add")]
    ELSE [coll |-> CollectionAdd(coll, Entries[content]),
          result |-> Return(content.id)]

(* the score that is the distance itself *)
SimilarityScore_raw(distance) == distance

retrieve_content(coll, content_id, getFails) ==
    IF getFails
    THEN VectorStoreException("retrieve failed", "get")
    ELSE LET results == CollectionGet(coll, content_id)
         IN IF results = {}
            THEN Return(None)
            ELSE LET first == CHOOSE e \in results : TRUE
                     metadata == first.metadata
                     document == first.document
                 IN IF "datetime" \notin ModuleGlobals
                    THEN VectorStoreException("retrieve failed", "NameError")
                    ELSE Return(Some(
                             [id |-> content_id,
                              title |-> metadata.title,
                              content |-> document,
                              summary |-> None,
                              url |-> metadata.url,
                              content_type |-> metadata.content_type,
                              source_id |-> "",
                              source_name |-> metadata.source_name,
                              authors |-> JsonLoads(metadata.authors),
                              categories |-> JsonLoads(metadata.categories),
                              tags |-> JsonLoads(metadata.tags),
                              published_at |-> FromIsoFormat(metadata.published_at),
                              quality_score |-> metadata.quality_score]))

SimilarityScore(distance) == 1 - distance

SearchResult(hit) ==
    [id |-> hit.id, content |-> hit.document, metadata |-> hit.metadata,
     similarity_score |-> SimilarityScore(hit.distance)]

(* hits: what collection.query answered *)
search_content(query, hits, encodeFails, queryFails) ==
    IF encodeFails THEN VectorStoreException("search failed", "encode")
    ELSE IF queryFails THEN VectorStoreException("search failed", "query")
    ELSE Return([i \in 1..Len(hits) |-> SearchResult(hits[i])])

(* the filter that keeps the record itself *)
IsOther_all(content_item, exclude_self, hit) == TRUE

(* the query that asks for n_results only *)
SimilarQuerySize_exact(n_results, exclude_self) == n_results

SimilarQuerySize(n_results, exclude_self) ==
    n_results + (IF exclude_self THEN 1 ELSE 0)

IsOther(content_item, exclude_self, hit) ==
    ~(exclude_self /\ hit.id = content_item.id)

RECURSIVE FormatOthers(_, _, _)
FormatOthers(content_item, exclude_self, hits) ==
    IF hits = <<>> THEN <<>>
    ELSE (IF IsOther(content_item, exclude_self, Head(hits))
          THEN <<SearchResult(Head(hits))>> ELSE <<>>)
         \o FormatOthers(content_item, exclude_self, Tail(hits))

(* the delete that lets the failure through *)
delete_content_raising(coll, content_id, deleteFails) ==
    IF deleteFails
    THEN [coll |-> coll, result |-> Raise("VectorStoreException", "delete failed", "delete")]
    ELSE [coll |-> {e \in coll : e.id # content_id}, result |-> Return(TRUE)]

search_similar_content(content_item, n_results, exclude_self, hits, encodeFails, queryFails) ==
    IF encodeFails THEN VectorStoreException("similar search failed", "encode")
    ELSE IF queryFails THEN VectorStoreException("similar search failed", "query")
    ELSE Return(Prefix(FormatOthers(content_item, exclude_self, hits), n_results))

(* the delete that answers True and removes the entry later *)
delete_content_deferred(coll, content_id, deleteFails) ==
    [coll |-> coll, result |-> Return(~deleteFails)]

delete_content(coll, content_id, deleteFails) ==
    IF deleteFails
    THEN [coll |-> coll, result |-> Return(FALSE)]
    ELSE [coll |-> CollectionDelete(coll, content_id), result |-> Return(TRUE)]

(* the update that puts the old entry back when the store fails *)
update_content_restoring(coll, content, deleteFails, encodeFails, addFails) ==
    IF encodeFails \/ addFails
    THEN [coll |-> coll, result |-> Return(FALSE)]
    ELSE [coll |-> {e \in coll : deleteFails \/ e.id # content.id}
                   \cup (IF deleteFails /\ content.id \in {e.id : e \in coll}
                         THEN {} ELSE {Entries[content]}),
          result |-> Return(TRUE)]

update_content(coll, content, deleteFails, encodeFails, addFails) ==
    LET d == delete_content(coll, content.id, deleteFails)
        s == store_content(d.coll, content, encodeFails, addFails)
    IN IF d.result.kind = "raise"
       THEN [coll |-> d.coll, result |-> Return(FALSE)]
       ELSE IF s.result.kind = "raise"
       THEN [coll |-> s.coll, result |-> Return(FALSE)]
       ELSE [coll |-> s.coll, result |-> Return(TRUE)]

(* ---------------------------- statistics ------------------------------ *)

SampleLimit == 100

(* config.vector_store.vector_dimension *)
VectorDimension == 384

(* the sample that is the whole collection *)
SampleSize_all(count) == count

(* limit=min(100, count) *)
SampleSize(count) == Min(SampleLimit, count)

(* the dict the loop of lines 250-255 builds for one metadata field: each   *)
(* value met in the sample, with the number of sampled entries that have it *)
Distribution(sample, field) ==
    [value \in {e.metadata[field] : e \in sample} |->
        Cardinality({e \in sample : e.metadata[field] = value})]

(* the statistics that take an empty sample for a failure *)
get_collection_stats_strict(coll, sample, countFails, getFails) ==
    IF countFails \/ getFails \/ sample = {} THEN Return([error |-> "get"])
    ELSE Return([total_documents |-> Cardinality(coll),
                 content_type_distribution |->
                     [value \in {e.metadata.content_type : e \in sample} |->
                         Cardinality({e \in sample : e.metadata.content_type = value})],
                 source_distribution |->
                     [value \in {e.metadata.source_name : e \in sample} |->
                         Cardinality({e \in sample : e.metadata.source_name = value})],
                 embedding_dimension |-> 384])

(* sample: what collection.get(limit=...) answered *)
get_collection_stats(coll, sample, countFails, getFails) ==
    IF countFails THEN Return([error |-> "count"])
    ELSE IF getFails THEN Return([error |-> "get"])
    ELSE Return([total_documents |-> Count(coll),
                 content_type_distribution |-> Distribution(sample, "content_type"),
                 source_distribution |-> Distribution(sample, "source_name"),
                 embedding_dimension |-> VectorDimension])

(* ------------------------------ the calls ----------------------------- *)

(* the texts a caller searches for *)
Queries == {<<>>, <<"t">>}

(* prev: the collection as the last call found it; lastOp: that call, its   *)
(* arguments, which collaborator call raised, and what it gave back;        *)
(* updating: the update_content call that is between its two steps, if any; *)
(* item: the ContentItem a scoring collaborator holds, if any               *)
Init ==
    /\ collection = {}
    /\ prev = {}
    /\ lastOp = [op |-> "init"]
    /\ updating = None
    /\ item = None

Store ==
    \E content \in ContentItems, fault \in {"none", "encode", "add"} :
        LET out == store_content(collection, content, fault = "encode", fault = "add")
        IN /\ collection' = out.coll
           /\ prev' = collection
           /\ lastOp' = [op |-> "store", content |-> content, fault |-> fault,
                         result |-> out.result]
           /\ UNCHANGED <<updating, item>>

(* the retrieve that drops the entry it was asked for *)
Retrieve_evicting ==
    \E content_id \in Ids :
        /\ lastOp' = [op |-> "retrieve", content_id |-> content_id,
                      getFails |-> FALSE,
                      result |-> retrieve_content(collection, content_id, FALSE)]
        /\ prev' = collection
        /\ collection' = {e \in collection : e.id # content_id}
        /\ UNCHANGED <<updating, item>>

Retrieve ==
    \E content_id \in Ids, getFails \in BOOLEAN :
        /\ lastOp' = [op |-> "retrieve", content_id |-> content_id,
                      getFails |-> getFails,
                      result |-> retrieve_content(collection, content_id, getFails)]
        /\ prev' = collection
        /\ UNCHANGED <<collection, updating, item>>

(* what the index reported, for the record of the call *)
Reported(hits) ==
    [i \in 1..Len(hits) |-> [id |-> hits[i].id, distance |-> hits[i].distance]]

Search ==
    \/ \E query \in Queries, n_results \in 1..MaxResults, where \in Wheres :
           \E hits \in CollectionQuery(collection, encode(query), n_results, where) :
               /\ lastOp' = [op |-> "search", query |-> query,
                             n_results |-> n_results, where |-> where,
                             fault |-> "none", reported |-> Reported(hits),
                             result |-> search_content(query, hits, FALSE, FALSE)]
               /\ prev' = collection
               /\ UNCHANGED <<collection, updating, item>>
    \/ \E query \in Queries, fault \in {"encode", "query"} :
           /\ lastOp' = [op |-> "search", query |-> query, fault |-> fault,
                         result |-> search_content(query, <<>>, fault = "encode",
                                                   fault = "query")]
           /\ prev' = collection
           /\ UNCHANGED <<collection, updating, item>>

SearchSimilar ==
    \/ \E content_item \in Probes, n_results \in 1..MaxResults,
          exclude_self \in BOOLEAN :
           \E hits \in CollectionQuery(collection, Entries[content_item].embedding,
                                       SimilarQuerySize(n_results, exclude_self),
                                       NoWhere) :
               /\ lastOp' = [op |-> "similar", content |-> content_item,
                             n_results |-> n_results, exclude_self |-> exclude_self,
                             fault |-> "none", reported |-> Reported(hits),
                             result |-> search_similar_content(
                                            content_item, n_results, exclude_self,
                                            hits, FALSE, FALSE)]
               /\ prev' = collection
               /\ UNCHANGED <<collection, updating, item>>
    \/ \E content_item \in Probes, fault \in {"encode", "query"} :
           /\ lastOp' = [op |-> "similar", content |-> content_item, fault |-> fault,
                         result |-> search_similar_content(
                                        content_item, 1, TRUE, <<>>,
                                        fault = "encode", fault = "query")]
           /\ prev' = collection
           /\ UNCHANGED <<collection, updating, item>>

Delete ==
    \E content_id \in Ids, deleteFails \in BOOLEAN :
        LET out == delete_content(collection, content_id, deleteFails)
        IN /\ collection' = out.coll
           /\ prev' = collection
           /\ lastOp' = [op |-> "delete", content_id |-> content_id,
                         deleteFails |-> deleteFails, result |-> out.result]
           /\ UNCHANGED <<updating, item>>

Update ==
    \E content \in ContentItems, deleteFails \in BOOLEAN,
       fault \in {"none", "encode", "add"} :
        LET out == update_content(collection, content, deleteFails,
                                  fault = "encode", fault = "add")
        IN /\ collection' = out.coll
           /\ prev' = collection
           /\ lastOp' = [op |-> "update", content |-> content,
                         deleteFails |-> deleteFails, fault |-> fault,
                         result |-> out.result]
           /\ UNCHANGED <<updating, item>>

Stats ==
    \/ \E sample \in CollectionGetLimit(collection, SampleSize(Count(collection))) :
           /\ lastOp' = [op |-> "stats", fault |-> "none",
                         sampled |-> Count(sample),
                         result |-> get_collection_stats(collection, sample,
                                                         FALSE, FALSE)]
           /\ prev' = collection
           /\ UNCHANGED <<collection, updating, item>>
    \/ \E fault \in {"count", "get"} :
           /\ lastOp' = [op |-> "stats", fault |-> fault,
                         result |-> get_collection_stats(collection, {},
                                                         fault = "count", fault = "get")]
           /\ prev' = collection
           /\ UNCHANGED <<collection, updating, item>>

(* ------------------ statistics of a long ingestion run ----------------- *)

(* store_content of the next record of the run *)
Ingest ==
    /\ Count(collection) < MaxEntries
    /\ LET content == BulkItems[Count(collection) + 1]
           out == store_content(collection, content, FALSE, FALSE)
       IN /\ collection' = out.coll
          /\ prev' = collection
          /\ lastOp' = [op |-> "store", id |-> content.id, fault |-> "none",
                        result |-> out.result]
          /\ UNCHANGED <<updating, item>>

NextStats ==
    \/ Ingest
    \/ Stats

SpecStats == Init /\ [][NextStats]_vars

(* ------------------- the text projection on its own -------------------- *)

(* a body one character longer than the prefix that is embedded *)
LongBody == [i \in 1..(ContentPrefixLen + 1) |-> "c"]

(* the fields the projection reads, each empty, absent, short and long *)
TextRecords ==
    [title : {<<>>, <<"t">>},
     summary : {None, Some(<<>>), Some(<<"s">>)},
     content : {<<>>, <<"c", "d">>, Prefix(LongBody, ContentPrefixLen), LongBody},
     authors : {<<>>, << <<"a">> >>, << <<"a">>, <<"b">> >>},
     tags : {<<>>, << <<"g">> >>, << <<"g">>, <<"h">> >>}]

Project ==
    \E content \in TextRecords :
        /\ lastOp' = [op |-> "project", content |-> content,
                      result |-> _prepare_text_for_embedding(content)]
        /\ UNCHANGED <<collection, prev, updating, item>>

NextProject ==
    \/ Project

SpecProject == Init /\ [][NextProject]_vars

(* ------------------- a ContentItem under scoring ----------------------- *)
(* quality_score in hundredths; item is the record a scoring collaborator   *)
(* holds, with whether its constructor was given a quality_level            *)

QualityLevels == {"high", "medium", "low", "very_low"}

QualityScores == {5 * i : i \in 0..20} \cup {29, 59, 79}

(* the validator of quality_level: pre=True, always=True, so it runs in the *)
(* constructor also when no quality_level is passed; values holds the       *)
(* fields validated before it                                               *)
set_quality_level(v, values) ==
    IF v = None /\ "quality_score" \in DOMAIN values
    THEN LET score == values.quality_score
         IN IF score >= 80 THEN Some("high")
            ELSE IF score >= 60 THEN Some("medium")
            ELSE IF score >= 30 THEN Some("low")
            ELSE Some("very_low")
    ELSE v

(* ContentItem(..., quality_score=..., quality_level=...) *)
NewContentItem(quality_score, quality_level) ==
    [quality_score |-> quality_score,
     quality_level |-> set_quality_level(quality_level,
                                         [quality_score |-> quality_score])]

Construct ==
    \E quality_score \in QualityScores,
       quality_level \in {None} \cup {Some(l) : l \in QualityLevels} :
        /\ item' = Some([record |-> NewContentItem(quality_score, quality_level),
                         explicit |-> quality_level # None])
        /\ lastOp' = [op |-> "construct", quality_score |-> quality_score,
                      quality_level |-> quality_level]
        /\ UNCHANGED <<collection, prev, updating>>

(* item.quality_score = quality_score: the model has no validate_assignment, *)
(* so the attribute is set and no validator runs                            *)
SetQualityScore ==
    /\ item # None
    /\ \E quality_score \in QualityScores :
           /\ item' = Some([item.value EXCEPT !.record.quality_score = quality_score])
           /\ lastOp' = [op |-> "set_quality_score", quality_score |-> quality_score]
           /\ UNCHANGED <<collection, prev, updating>>

NextQuality ==
    \/ Construct
    \/ SetQualityScore

SpecQuality == Init /\ [][NextQuality]_vars

(* ---------------- update_content racing a concurrent reader ------------ *)
(* update_content is two calls on the shared collection, delete_content at  *)
(* line 226 and store_content at line 228, and holds no lock: other callers *)
(* run between them. updating holds the call that has made the first.       *)

(* update_content up to the return of delete_content (line 226) *)
UpdateDelete ==
    /\ updating = None
    /\ \E content \in ContentItems, deleteFails \in BOOLEAN :
           LET out == delete_content(collection, content.id, deleteFails)
           IN /\ collection' = out.coll
              /\ prev' = collection
              /\ updating' = Some([content |-> content,
                                   indexedBefore |-> content.id \in IdsOf(collection),
                                   deleteFails |-> deleteFails,
                                   observed |-> {}])
              /\ lastOp' = [op |-> "update_delete", content |-> content,
                            deleteFails |-> deleteFails, result |-> out.result]
              /\ UNCHANGED item

(* update_content from store_content (line 228) to its return *)
UpdateStore ==
    /\ updating # None
    /\ \E fault \in {"none", "encode", "add"} :
           LET call == updating.value
               out == store_content(collection, call.content, fault = "encode",
                                    fault = "add")
           IN /\ collection' = out.coll
              /\ prev' = collection
              /\ updating' = None
              /\ lastOp' = [op |-> "update", content |-> call.content,
                            deleteFails |-> call.deleteFails, fault |-> fault,
                            indexedBefore |-> call.indexedBefore,
                            observed |-> call.observed,
                            result |-> Return(out.result.kind = "return")]
              /\ UNCHANGED item

(* another caller's retrieve_content; what it got for the id under update  *)
(* is kept with the update                                                  *)
ConcurrentRetrieve ==
    \E content_id \in Ids :
        LET got == retrieve_content(collection, content_id, FALSE)
        IN /\ lastOp' = [op |-> "retrieve", content_id |-> content_id,
                         getFails |-> FALSE, result |-> got]
           /\ updating' = IF updating # None /\ updating.value.content.id = content_id
                          THEN Some([updating.value EXCEPT
                                         !.observed = @ \cup {got}])
                          ELSE updating
           /\ prev' = collection
           /\ UNCHANGED <<collection, item>>

NextConcurrent ==
    \/ Store
    \/ UpdateDelete
    \/ UpdateStore
    \/ ConcurrentRetrieve

SpecConcurrent == Init /\ [][NextConcurrent]_vars

Next ==
    \/ Store
    \/ Retrieve
    \/ Search
    \/ SearchSimilar
    \/ Delete
    \/ Update
    \/ Stats

Spec == Init /\ [][Next]_vars

(* ------------------------------ properties ---------------------------- *)

Absent(coll, id) == retrieve_content(coll, id, FALSE) = Return(None)

(* C1: after store_content(r) has succeeded, retrieve_content(r.id) returns *)
(* a record, not None and not an error, and the record's id is r.id.        *)
C1_StoreThenRetrieve ==
    (lastOp.op = "store" /\ lastOp.result.kind = "return") =>
        LET got == retrieve_content(collection, lastOp.content.id, FALSE)
        IN /\ got.kind = "return"
           /\ ~got.value.isNone
           /\ got.value.value.id = lastOp.content.id

(* C2: the index holds at most one entry for each id in every reachable     *)
(* state, and one store_content call raises the entry count by at most one. *)
C2_OneEntryPerId ==
    /\ \A id \in Ids : Count(CollectionGet(collection, id)) <= 1
    /\ lastOp.op = "store" => Count(collection) <= Count(prev) + 1

(* store_content has answered for an id that was indexed with other content *)
C2_StoredTwice ==
    /\ lastOp.op = "store"
    /\ lastOp.result.kind = "return"
    /\ lastOp.content.id \in IdsOf(prev)
    /\ Entries[lastOp.content] \notin prev

(* C3: after update_content(r) on an indexed id has answered True,          *)
(* retrieve_content(r.id) returns the text and metadata projected from r,   *)
(* and the entry count is what it was before the update.                    *)
C3_UpdateReflected ==
    (lastOp.op = "update" /\ lastOp.content.id \in IdsOf(prev) /\ lastOp.result.value) =>
        LET r == lastOp.content
            got == retrieve_content(collection, r.id, FALSE)
        IN /\ got.kind = "return"
           /\ ~got.value.isNone
           /\ got.value.value.content = _prepare_text_for_embedding(r)
           /\ got.value.value.title = r.title
           /\ got.value.value.source_name = r.source_name
           /\ got.value.value.content_type = r.content_type
           /\ got.value.value.url = r.url
           /\ got.value.value.quality_score = r.quality_score
           /\ Count(collection) = Count(prev)

(* C4: search_similar_content(r, k, exclude_self=True) returns at most k    *)
(* results and none of them has the id of r.                                *)
C4_SelfExcluded ==
    (lastOp.op = "similar" /\ lastOp.fault = "none" /\ lastOp.exclude_self) =>
        /\ lastOp.result.kind = "return"
        /\ Len(lastOp.result.value) <= lastOp.n_results
        /\ \A i \in 1..Len(lastOp.result.value) :
               lastOp.result.value[i].id # lastOp.content.id

(* the index answered k+1 entries, r among them, and k were returned *)
C4_SelfAmongHits ==
    /\ lastOp.op = "similar"
    /\ lastOp.fault = "none"
    /\ lastOp.exclude_self
    /\ Len(lastOp.reported) = lastOp.n_results + 1
    /\ \E i \in 1..Len(lastOp.reported) : lastOp.reported[i].id = lastOp.content.id
    /\ Len(lastOp.result.value) = lastOp.n_results

(* C5 as stated: once delete_content(id) has been called, retrieve_content  *)
(* (id) yields None.                                                        *)
C5_DeleteThenAbsent ==
    lastOp.op = "delete" => Absent(collection, lastOp.content_id)

(* C5 as amended: once delete_content(id) has answered True, retrieve_      *)
(* content(id) (its fetch not failing) yields None, and goes on yielding    *)
(* None until store_content or update_content is called with that id.       *)
C5_DeletedStaysAbsent ==
    /\ []((lastOp.op = "delete" /\ lastOp.result.value) =>
              Absent(collection, lastOp.content_id))
    /\ [][\A id \in Ids :
              (/\ Absent(collection, id)
               /\ ~(lastOp'.op \in {"store", "update"} /\ lastOp'.content.id = id))
              => Absent(collection', id)]_vars

(* delete_content has answered True for an id that was indexed *)
C5_DeletedIndexed ==
    /\ lastOp.op = "delete"
    /\ lastOp.result.value
    /\ lastOp.content_id \in IdsOf(prev)

(* C6 as stated: delete_content of an id that has no entry returns False,   *)
(* raises nothing and leaves the index as it was.                           *)
C6_UnknownDeleteFalse ==
    (lastOp.op = "delete" /\ lastOp.content_id \notin IdsOf(prev)) =>
        /\ lastOp.result = Return(FALSE)
        /\ collection = prev

(* C6 as amended: delete_content of an id that has no entry raises nothing  *)
(* and leaves the index as it was; it returns True when the underlying      *)
(* delete call completes and False only when that call fails.               *)
C6_UnknownDeleteQuiet ==
    (lastOp.op = "delete" /\ lastOp.content_id \notin IdsOf(prev)) =>
        /\ lastOp.result.kind = "return"
        /\ lastOp.result.value = ~lastOp.deleteFails
        /\ collection = prev

(* an id with no entry was deleted from a non-empty index, and the call     *)
(* answered True                                                            *)
C6_UnknownDeleted ==
    /\ lastOp.op = "delete"
    /\ lastOp.content_id \notin IdsOf(prev)
    /\ prev # {}
    /\ ~lastOp.deleteFails
    /\ lastOp.result = Return(TRUE)

C8_DeleteNeverRaises ==
    lastOp.op = "delete" =>
        /\ lastOp.result.kind = "return"
        /\ lastOp.deleteFails => lastOp.result.value = FALSE
        /\ lastOp.result.value = TRUE => ~lastOp.deleteFails

(* the underlying delete of an indexed id failed and the call answered False *)
C8_DeleteFailed ==
    /\ lastOp.op = "delete"
    /\ lastOp.deleteFails
    /\ lastOp.content_id \in IdsOf(prev)
    /\ lastOp.result = Return(FALSE)

(* C9: update_content(r) leaves the index that delete_content(r.id) and     *)
(* then store_content(r) leave, and gives the caller the outcome of that    *)
(* store_content: success, or its typed failure.                            *)
C9_UpdateIsDeleteThenStore ==
    lastOp.op = "update" =>
        LET d == delete_content(prev, lastOp.content.id, lastOp.deleteFails)
            s == store_content(d.coll, lastOp.content, lastOp.fault = "encode",
                               lastOp.fault = "add")
        IN /\ collection = s.coll
           /\ lastOp.result.kind = s.result.kind
           /\ s.result.kind = "raise" => lastOp.result.exc = s.result.exc

(* C10: search_content returns at most k results, those the index reported  *)
(* and in its order (ascending distance), each with similarity_score        *)
(* 1 - distance, so the scores never increase along the sequence; with no   *)
(* matching entry it returns the empty sequence.                            *)
C10_SearchRanking ==
    (lastOp.op = "search" /\ lastOp.fault = "none") =>
        LET results == lastOp.result.value
            reported == lastOp.reported
        IN /\ lastOp.result.kind = "return"
           /\ Len(results) <= lastOp.n_results
           /\ Len(results) = Len(reported)
           /\ \A i \in 1..Len(results) :
                  /\ results[i].id = reported[i].id
                  /\ results[i].similarity_score = 1 - reported[i].distance
           /\ \A i, j \in 1..Len(results) :
                  i < j => /\ reported[i].distance <= reported[j].distance
                           /\ results[i].similarity_score >= results[j].similarity_score
           /\ {e \in collection : Matches(e.metadata, lastOp.where)} = {}
                  => results = <<>>

(* a search returned two results of different scores *)
C10_RankedResults ==
    /\ lastOp.op = "search"
    /\ lastOp.fault = "none"
    /\ Len(lastOp.result.value) >= 2
    /\ lastOp.result.value[1].similarity_score > lastOp.result.value[2].similarity_score

(* C11: update_content is not transactional. Its delete step, once it has   *)
(* answered True, leaves the index without an entry for r.id until a store  *)
(* step runs; a retrieve_content(r.id) that another caller runs on the      *)
(* index in that condition returns None; and the update that ends with True *)
(* leaves r.id indexed. So a reader between the two steps sees an id absent *)
(* that was indexed before the update and is indexed after it.              *)
C11_ReaderSeesGap ==
    /\ (lastOp.op = "update_delete" /\ lastOp.result = Return(TRUE)) =>
           lastOp.content.id \notin IdsOf(collection)
    /\ (lastOp.op = "retrieve" /\ lastOp.content_id \notin IdsOf(collection)) =>
           lastOp.result = Return(None)
    /\ (updating # None /\ lastOp.op = "retrieve"
        /\ lastOp.content_id = updating.value.content.id) =>
           lastOp.result \in updating.value.observed
    /\ (lastOp.op = "update" /\ lastOp.result = Return(TRUE)) =>
           lastOp.content.id \in IdsOf(collection)

(* an update of an indexed id has ended with the id indexed, and the reader *)
(* that ran between its two steps was told the record is absent             *)
C11_AbsentBetweenSteps ==
    /\ lastOp.op = "update"
    /\ lastOp.indexedBefore
    /\ Return(None) \in lastOp.observed
    /\ lastOp.result = Return(TRUE)
    /\ lastOp.content.id \in IdsOf(collection)

RECURSIVE SumOver(_, _)
SumOver(dist, keys) ==
    IF keys = {} THEN 0
    ELSE LET key == CHOOSE k \in keys : TRUE
         IN dist[key] + SumOver(dist, keys \ {key})

Total(dist) == SumOver(dist, DOMAIN dist)

(* C12: get_collection_stats on an index with no entries, the index         *)
(* answering, returns total_documents 0 with an empty content-type          *)
(* distribution and an empty source distribution, and no error.             *)
C12_EmptyStats ==
    (lastOp.op = "stats" /\ lastOp.fault = "none" /\ collection = {}) =>
        /\ lastOp.result.kind = "return"
        /\ "error" \notin DOMAIN lastOp.result.value
        /\ lastOp.result.value.total_documents = 0
        /\ DOMAIN lastOp.result.value.content_type_distribution = {}
        /\ DOMAIN lastOp.result.value.source_distribution = {}

(* statistics were taken of an index that holds no entry *)
C12_StatsOfEmptied ==
    /\ lastOp.op = "stats"
    /\ lastOp.fault = "none"
    /\ collection = {}
    /\ lastOp.result.value.total_documents = 0

Bucket(score) ==
    IF score >= 80 THEN "high"
    ELSE IF score >= 60 THEN "medium"
    ELSE IF score >= 30 THEN "low"
    ELSE "very_low"

(* C13: a ContentItem that was given no explicit quality level has, in      *)
(* every reachable state, the quality_level that is the bucket of its       *)
(* current quality_score, also after quality_score was assigned anew.       *)
C13_LevelTracksScore ==
    (item # None /\ ~item.value.explicit) =>
        item.value.record.quality_level = Some(Bucket(item.value.record.quality_score))

(* the text the composition rule gives: each part that is present, in order *)
PresentParts(content) ==
    (IF content.title # <<>> THEN <<content.title>> ELSE <<>>)
    \o (IF Truthy(content.summary) THEN <<content.summary.value>> ELSE <<>>)
    \o (IF content.content # <<>>
        THEN <<SubSeq(content.content, 1, Min(1000, Len(content.content)))>> ELSE <<>>)
    \o (IF content.authors # <<>>
        THEN <<AuthorsLabel \o Join(content.authors, <<",", " ">>)>> ELSE <<>>)
    \o (IF content.tags # <<>>
        THEN <<TagsLabel \o Join(content.tags, <<",", " ">>)>> ELSE <<>>)

HasEmptyLine(text) ==
    /\ text # <<>>
    /\ \/ text[1] = "\n"
       \/ text[Len(text)] = "\n"
       \/ \E i \in 1..(Len(text) - 1) : text[i] = "\n" /\ text[i + 1] = "\n"

(* C14: _prepare_text_for_embedding(record) is the title, the summary if    *)
(* present, the first 1000 characters of the body if present, the authors   *)
(* line if there are authors and the tags line if there are tags, joined    *)
(* with newlines in that order, every empty or absent field skipped, so the *)
(* text has no empty line, also for a record whose title is empty.          *)
C14_TextProjection ==
    lastOp.op = "project" =>
        /\ lastOp.result = Join(PresentParts(lastOp.content), <<"\n">>)
        /\ ~HasEmptyLine(lastOp.result)

(* C15: every result of search_content and search_similar_content has a     *)
(* similarity score in [0,1], whatever distance the index reports.          *)
C15_SimilarityInUnitRange ==
    (lastOp.op \in {"search", "similar"} /\ lastOp.fault = "none") =>
        \A i \in 1..Len(lastOp.result.value) :
            /\ lastOp.result.value[i].similarity_score >= 0
            /\ lastOp.result.value[i].similarity_score <= 1

(* C16: when update_content(r) is called on an indexed id, its delete step  *)
(* succeeds and its store step fails, the index afterwards holds no entry   *)
(* for r.id, every other entry being as it was, and retrieve_content(r.id)  *)
(* returns None.                                                            *)
C16_FailedUpdateLosesEntry ==
    (/\ lastOp.op = "update"
     /\ lastOp.content.id \in IdsOf(prev)
     /\ ~lastOp.deleteFails
     /\ lastOp.fault # "none") =>
        /\ lastOp.content.id \notin IdsOf(collection)
        /\ collection = {e \in prev : e.id # lastOp.content.id}
        /\ retrieve_content(collection, lastOp.content.id, FALSE) = Return(None)

(* the index write of an update failed after its delete had removed the    *)
(* entry, another entry being indexed                                       *)
C16_EntryLost ==
    /\ lastOp.op = "update"
    /\ lastOp.content.id \in IdsOf(prev)
    /\ ~lastOp.deleteFails
    /\ lastOp.fault = "add"
    /\ lastOp.result = Return(FALSE)
    /\ collection # {}

C19_ReadsDoNotWrite ==
    lastOp.op \in {"retrieve", "search", "similar", "stats"} =>
        /\ collection = prev
        /\ Count(collection) = Count(prev)

(* a read of an index that holds entries failed, the index itself answering *)
C19_FailedRead ==
    /\ lastOp.op = "retrieve"
    /\ ~lastOp.getFails
    /\ lastOp.result.kind = "raise"
    /\ lastOp.content_id \in IdsOf(collection)

(* C17: for an index of n entries get_collection_stats, the index           *)
(* answering, reports total count n and builds both distributions from      *)
(* min(100, n) sampled entries: the counts of the content-type distribution *)
(* and those of the source distribution each sum to min(100, n), which is   *)
(* the total count exactly when n <= 100.                                   *)
C17_StatsAreSample ==
    (lastOp.op = "stats" /\ lastOp.fault = "none") =>
        LET n == Count(collection)
            stats == lastOp.result.value
        IN /\ stats.total_documents = n
           /\ lastOp.sampled = Min(100, n)
           /\ Total(stats.content_type_distribution) = Min(100, n)
           /\ Total(stats.source_distribution) = Min(100, n)
           /\ (Total(stats.content_type_distribution) = stats.total_documents)
                  <=> (n <= 100)
           /\ (Total(stats.source_distribution) = stats.total_documents)
                  <=> (n <= 100)

(* statistics of an index of more than 100 entries, of two sources: the     *)
(* counts sum to less than the total                                        *)
C17_MoreThanSample ==
    /\ lastOp.op = "stats"
    /\ lastOp.fault = "none"
    /\ Count(collection) > 100
    /\ Cardinality(DOMAIN lastOp.result.value.source_distribution) = 2
    /\ Total(lastOp.result.value.source_distribution)
           < lastOp.result.value.total_documents

====
